---- MODULE Spec2Model ----
(***************************************************************************)
(* Model of plot.py: the smart-meter cleaner (open_smart_meter), the       *)
(* weekly carbon aggregation (carbon_mix) and the per-source attribution   *)
(* (calculate_home_source_usage, plot_stacked_area), run in the order of   *)
(* the script's entry point.                                               *)
(*                                                                         *)
(* Timestamps are slot numbers 0..NSlots-1 (one slot per reading           *)
(* interval); slot 0 starts a calendar week and a week holds WeekLen       *)
(* slots.  A table is a function whose DOMAIN is the set of timestamps     *)
(* that have a row; rows are in time order.  Floating-point values are     *)
(* exact rationals plus NaN and the two infinities.                        *)
(***************************************************************************)
EXTENDS Integers, Sequences, FiniteSets, TLC

\* Number of reading intervals covered by the input files.
NSlots == 5
\* Reading intervals per calendar week.
WeekLen == 2

Slots == 0..(NSlots - 1)

-----------------------------------------------------------------------------
(* Floating-point values.                                                  *)

RECURSIVE GCD(_, _)
GCD(a, b) == IF b = 0 THEN a ELSE GCD(b, a % b)

Abs(x) == IF x < 0 THEN -x ELSE x

NaN == [k |-> "nan", n |-> 0, d |-> 1]
Inf(s) == [k |-> "inf", n |-> s, d |-> 1]

\* The rational n/d (d # 0) in lowest terms with a positive denominator.
Num(n, d) ==
    LET g == GCD(Abs(n), Abs(d))
        s == IF d < 0 THEN -1 ELSE 1
    IN  [k |-> "num", n |-> (s * n) \div g, d |-> (s * d) \div g]

Int2Val(i) == Num(i, 1)
Zero == Int2Val(0)

IsNaN(x) == x.k = "nan"
IsNum(x) == x.k = "num"
Sign(x) == IF x.n > 0 THEN 1 ELSE IF x.n < 0 THEN -1 ELSE 0

Add(a, b) ==
    IF IsNaN(a) \/ IsNaN(b) THEN NaN
    ELSE IF IsNum(a) /\ IsNum(b) THEN Num(a.n * b.d + b.n * a.d, a.d * b.d)
    ELSE IF IsNum(a) THEN b
    ELSE IF IsNum(b) THEN a
    ELSE IF a.n = b.n THEN a ELSE NaN

Neg(a) == IF IsNaN(a) THEN NaN ELSE [a EXCEPT !.n = -a.n]

Sub(a, b) == Add(a, Neg(b))

Mul(a, b) ==
    IF IsNaN(a) \/ IsNaN(b) THEN NaN
    ELSE IF IsNum(a) /\ IsNum(b) THEN Num(a.n * b.n, a.d * b.d)
    ELSE IF Sign(a) * Sign(b) = 0 THEN NaN
    ELSE Inf(Sign(a) * Sign(b))

\* Variant: a zero divisor is answered with 0.
DivByZeroGuarded(a) == Zero

\* Division of a weekly total by zero gives no number: 0/0 is NaN, x/0 is +-inf.
DivByZero(a) == IF Sign(a) = 0 THEN NaN ELSE Inf(Sign(a))

Div(a, b) ==
    IF IsNaN(a) \/ IsNaN(b) THEN NaN
    ELSE IF IsNum(a) /\ IsNum(b)
         THEN IF b.n = 0 THEN DivByZero(a) ELSE Num(a.n * b.d, a.d * b.n)
    ELSE IF IsNum(b) THEN (IF Sign(b) < 0 THEN Neg(a) ELSE a)
    ELSE IF IsNum(a) THEN Zero
    ELSE NaN

\* a > b as pandas compares: False whenever either side is NaN.
Gt(a, b) ==
    /\ ~IsNaN(a)
    /\ ~IsNaN(b)
    /\ IF IsNum(a) /\ IsNum(b) THEN a.n * b.d > b.n * a.d
       ELSE IF IsNum(a) THEN b.n < 0
       ELSE IF IsNum(b) THEN a.n > 0
       ELSE a.n > b.n

Min(S) == CHOOSE x \in S : \A y \in S : x <= y
Max(S) == CHOOSE x \in S : \A y \in S : x >= y

\* Series.sum(): NaN entries are skipped, the sum of nothing is 0.
RECURSIVE SumOver(_, _)
SumOver(col, S) ==
    IF S = {} THEN Zero
    ELSE LET t == CHOOSE x \in S : TRUE
             v == col[t]
             rest == SumOver(col, S \ {t})
         IN  IF IsNaN(v) THEN rest ELSE Add(v, rest)

-----------------------------------------------------------------------------
(* open_smart_meter: the data cleaner.                                     *)

ERROR_THRESHOLD == 15

\* Variant: the mask selects nothing, every reading is kept.
MarkErrorsNever(col) == col

\* df.loc[df['imports'] > 15, 'imports'] = pd.NA
MarkErrors(col) ==
    [t \in DOMAIN col |->
        IF Gt(col[t], Int2Val(ERROR_THRESHOLD)) THEN NaN ELSE col[t]]

\* Position of the row of timestamp t in the table.
RowPos(col, t) == Cardinality({u \in DOMAIN col : u < t})

PrevValid(col, t) == {u \in DOMAIN col : u < t /\ ~IsNaN(col[u])}
NextValid(col, t) == {u \in DOMAIN col : u > t /\ ~IsNaN(col[u])}

\* The abscissa interpolate() gives a row: with the default method
\* ('linear') the index is ignored and rows count as equally spaced.
InterpX(col, t) == RowPos(col, t)

\* Variant: interpolation confined to the inside of the valid range.
FillTrailingInsideOnly(col, t) == NaN

\* A NaN after the last valid row: the default limit_direction ('forward')
\* with no limit_area carries the last valid value forward.
FillTrailing(col, t) == col[Max(PrevValid(col, t))]

\* Series.interpolate() with its default arguments.
Interpolate(col) ==
    [t \in DOMAIN col |->
        IF ~IsNaN(col[t]) THEN col[t]
        ELSE IF PrevValid(col, t) = {} THEN NaN
        ELSE IF NextValid(col, t) = {} THEN FillTrailing(col, t)
        ELSE LET p == Max(PrevValid(col, t))
                 q == Min(NextValid(col, t))
                 w == Num(InterpX(col, t) - InterpX(col, p),
                          InterpX(col, q) - InterpX(col, p))
             IN  Add(col[p], Mul(Sub(col[q], col[p]), w))]

\* The 'imports' column open_smart_meter returns for a kWh column.
CleanImports(kwh) == Interpolate(MarkErrors(kwh))

-----------------------------------------------------------------------------
(* Column names and input files.                                           *)

GENERATION_MIX_COLUMNS ==
    <<"GAS", "COAL", "NUCLEAR", "WIND", "HYDRO", "IMPORTS", "BIOMASS", "OTHER",
      "SOLAR", "STORAGE">>

Sources == {GENERATION_MIX_COLUMNS[i] : i \in DOMAIN GENERATION_MIX_COLUMNS}

CARBON_INTENSITY_COL == "CARBON_INTENSITY"
GRID_GENERATION_COL == "GENERATION"

\* Columns the script reads from smart_meter.csv and from grid.csv.
SmartMeterColumns == {"dateTime", "kWh"}
GridColumns == {"DATETIME", CARBON_INTENSITY_COL, GRID_GENERATION_COL} \cup Sources

\* The column order plot_stacked_area selects.
PlotColumns ==
    <<"NUCLEAR", "GAS", "WIND", "IMPORTS", "SOLAR", "HYDRO", "BIOMASS", "OTHER",
      "STORAGE", "COAL">>

EmptyTable == [t \in {} |-> NaN]

\* The sets of timestamps a file with at least one row may hold.
Indexes == (SUBSET Slots) \ {{}}

\* All tables with at least one row whose cells are drawn from Cells.
Tables(Cells) == UNION {[D -> Cells] : D \in Indexes}

\* A grid.csv row: carbon intensity, total generation and the generation of
\* the sources named in mix (a function from some sources to integers);
\* every other source generates nothing.
GridRow(ci, gen, mix) ==
    [c \in GridColumns \ {"DATETIME"} |->
        IF c = CARBON_INTENSITY_COL THEN Int2Val(ci)
        ELSE IF c = GRID_GENERATION_COL THEN Int2Val(gen)
        ELSE IF c \in DOMAIN mix THEN Int2Val(mix[c])
        ELSE Zero]

\* A file: the columns of its header and its rows by timestamp.
File(cols, rows) == [cols |-> cols, rows |-> rows]

\* A grid.csv that lacks column c.
WithoutColumn(f, c) ==
    File(f.cols \ {c},
         [t \in DOMAIN f.rows |->
            [x \in (DOMAIN f.rows[t]) \ {c} |-> f.rows[t][x]]])

-----------------------------------------------------------------------------
(* Weekly resampling.                                                      *)

\* The calendar week of a timestamp.
WeekOf(t) == t \div WeekLen

\* Variant: the week of the last row gets no bucket.
BucketsOpenEnd(index) ==
    IF index = {} THEN {}
    ELSE WeekOf(Min(index))..(WeekOf(Max(index)) - 1)

\* resample('W') makes one bucket per week from the week of the first row
\* to the week of the last row, also for weeks with no row.
Buckets(index) ==
    IF index = {} THEN {}
    ELSE WeekOf(Min(index))..WeekOf(Max(index))

RowsOfWeek(index, w) == {t \in index : WeekOf(t) = w}

\* Variant: the sum is taken over the whole column, not over the week.
WeeklySumAllRows(col, w) == SumOver(col, DOMAIN col)

\* One column of df.resample('W').sum().
WeeklySum(col, w) == SumOver(col, RowsOfWeek(DOMAIN col, w))

-----------------------------------------------------------------------------
(* carbon_mix.                                                             *)

\* Variant: the join also drops the rows whose imports are missing.
JoinIndexDropMissing(imports, gridRows) ==
    {t \in (DOMAIN imports) \cap (DOMAIN gridRows) : ~IsNaN(imports[t])}

\* df.join(grid[[CARBON_INTENSITY_COL, GRID_GENERATION_COL]], how='inner')
JoinIndex(imports, gridRows) == (DOMAIN imports) \cap (DOMAIN gridRows)

\* df['home_carbon'] = df['imports'] * df[CARBON_INTENSITY_COL]
HomeCarbon(kwh, ci) == Mul(kwh, ci)

\* df['grid_carbon'] = df[GRID_GENERATION_COL] * df[CARBON_INTENSITY_COL]
GridCarbon(gen, ci) == Mul(gen, ci)

JoinedRows(imports, gridRows) ==
    [t \in JoinIndex(imports, gridRows) |->
        LET ci == gridRows[t][CARBON_INTENSITY_COL]
            gen == gridRows[t][GRID_GENERATION_COL]
        IN  [imports |-> imports[t], ci |-> ci, gen |-> gen,
             home_carbon |-> HomeCarbon(imports[t], ci),
             grid_carbon |-> GridCarbon(gen, ci)]]

Column(table, name) == [t \in DOMAIN table |-> table[t][name]]

\* Variant: the quotient taken the wrong way round.
IntensityInverted(carbon, energy) == Div(energy, carbon)

\* Weekly intensity: the week's carbon total over the week's energy total.
Intensity(carbon, energy) == Div(carbon, energy)

WeeklyRows(df) ==
    [w \in Buckets(DOMAIN df) |->
        LET hc == WeeklySum(Column(df, "home_carbon"), w)
            gc == WeeklySum(Column(df, "grid_carbon"), w)
            im == WeeklySum(Column(df, "imports"), w)
            ge == WeeklySum(Column(df, "gen"), w)
        IN  [home_carbon |-> hc, grid_carbon |-> gc, imports |-> im, gen |-> ge,
             home_carbon_intensity |-> Intensity(hc, im),
             grid_carbon_intensity |-> Intensity(gc, ge)]]

Total(df, name) == SumOver(Column(df, name), DOMAIN df)

\* home_avg and grid_avg, as printed.
HomeAvg(df) == Div(Total(df, "home_carbon"), Total(df, "imports"))
GridAvg(df) == Div(Total(df, "grid_carbon"), Total(df, "gen"))

-----------------------------------------------------------------------------
(* calculate_home_source_usage.                                            *)

\* grid[GENERATION_MIX_COLUMNS].sum(axis=1) of one row: the first i of the
\* ten columns, NaN cells skipped.
RECURSIVE MixSum(_, _)
MixSum(row, i) ==
    IF i = 0 THEN Zero
    ELSE LET v == row[GENERATION_MIX_COLUMNS[i]]
             rest == MixSum(row, i - 1)
         IN  IF IsNaN(v) THEN rest ELSE Add(v, rest)

\* Variant: the last of the ten columns is left out of the total.
MixTotalShort(row) == MixSum(row, Len(GENERATION_MIX_COLUMNS) - 1)

MixTotal(row) == MixSum(row, Len(GENERATION_MIX_COLUMNS))

\* One row of grid_mix: each source's generation over the row's total.
MixFractions(row) ==
    LET total == MixTotal(row)
    IN  [s \in Sources |-> Div(row[s], total)]

\* grid_mix = grid[GENERATION_MIX_COLUMNS].div(... .sum(axis=1), axis=0)
GridMix(gridRows) == [t \in DOMAIN gridRows |-> MixFractions(gridRows[t])]

\* df[source] = df['imports'] * grid_mix[source]: the product is aligned on
\* the timestamp and kept for the rows of df; a row of df with no grid row
\* gets NaN.
Attributed(imports, mix, source) ==
    [t \in DOMAIN imports |->
        IF t \in DOMAIN mix THEN Mul(imports[t], mix[t][source]) ELSE NaN]

\* df[GENERATION_MIX_COLUMNS].resample('W').sum()
WeeklyUsage(imports, mix) ==
    [w \in Buckets(DOMAIN imports) |->
        [s \in Sources |-> WeeklySum(Attributed(imports, mix, s), w)]]

\* DataFrame.plot.area() is stacked: it refuses a column that holds both
\* positive and negative values.
MixedSign(table, s) ==
    /\ \E w \in DOMAIN table : Sign(table[w][s]) > 0
    /\ \E w \in DOMAIN table : Sign(table[w][s]) < 0

-----------------------------------------------------------------------------
(* The script: carbon_mix() and then energy_sources().                     *)

VARIABLES
    smart_meter,   \* smart_meter.csv: its columns and its kWh by timestamp
    grid,          \* grid.csv: its columns and its rows by timestamp
    pc,            \* the statement the script is at
    imports,       \* the 'imports' column open_smart_meter returned
    df,            \* carbon_mix: the joined table with the carbon columns
    df_weekly,     \* carbon_mix: the weekly table
    stdout,        \* the lines printed, each with the average it reports
    grid_mix,      \* calculate_home_source_usage: the source fractions by row
    weekly_usage,  \* the table calculate_home_source_usage returned
    files          \* the images saved: file name and weeks drawn

vars == <<smart_meter, grid, pc, imports, df, df_weekly, stdout, grid_mix, weekly_usage, files>>

CARBON_PNG == "carbon_intensity_linkedin.png"
USAGE_PNG == "home_energy_source_usage.png"

\* read_csv(..., parse_dates=[...], index_col=...) and the column lookups
\* raise when a named column is not in the file.
SmartMeterReadable == SmartMeterColumns \subseteq smart_meter.cols
CarbonColumnsReadable ==
    {"DATETIME", CARBON_INTENSITY_COL, GRID_GENERATION_COL} \subseteq grid.cols
MixColumnsReadable == ({"DATETIME"} \cup Sources) \subseteq grid.cols

\* carbon_mix, line 28: df = open_smart_meter()
OpenSmartMeter ==
    /\ pc = "carbon_mix"
    /\ SmartMeterReadable
    /\ imports' = CleanImports(smart_meter.rows)
    /\ pc' = "join"
    /\ UNCHANGED <<smart_meter, grid, df, df_weekly, stdout, grid_mix, weekly_usage, files>>

OpenSmartMeterRaises ==
    /\ pc = "carbon_mix"
    /\ ~SmartMeterReadable
    /\ pc' = "error"
    /\ UNCHANGED <<smart_meter, grid, imports, df, df_weekly, stdout, grid_mix, weekly_usage, files>>

\* carbon_mix, lines 30-42: the join, the carbon columns, the weekly table.
Aggregate ==
    /\ pc = "join"
    /\ CarbonColumnsReadable
    /\ df' = JoinedRows(imports, grid.rows)
    /\ df_weekly' = WeeklyRows(df')
    /\ pc' = "plot"
    /\ UNCHANGED <<smart_meter, grid, imports, stdout, grid_mix, weekly_usage, files>>

AggregateRaises ==
    /\ pc = "join"
    /\ ~CarbonColumnsReadable
    /\ pc' = "error"
    /\ UNCHANGED <<smart_meter, grid, imports, df, df_weekly, stdout, grid_mix, weekly_usage, files>>

\* carbon_mix, lines 45-68: the chart is drawn and saved whatever the weekly
\* table holds, then both overall averages are printed.
SaveAndPrint ==
    /\ pc = "plot"
    /\ files' = files \cup {[name |-> CARBON_PNG, weeks |-> DOMAIN df_weekly]}
    /\ stdout' = <<[line |-> "Home Average Carbon Intensity", value |-> HomeAvg(df)],
                   [line |-> "Grid Average Carbon Intensity", value |-> GridAvg(df)]>>
    /\ pc' = "energy_sources"
    /\ UNCHANGED <<smart_meter, grid, imports, df, df_weekly, grid_mix, weekly_usage>>

\* calculate_home_source_usage, lines 72-76: both files are read again and
\* the rows of grid are normalised.
NormaliseGridMix ==
    /\ pc = "energy_sources"
    /\ SmartMeterReadable
    /\ MixColumnsReadable
    /\ imports' = CleanImports(smart_meter.rows)
    /\ grid_mix' = GridMix(grid.rows)
    /\ pc' = "attribute"
    /\ UNCHANGED <<smart_meter, grid, df, df_weekly, stdout, weekly_usage, files>>

NormaliseGridMixRaises ==
    /\ pc = "energy_sources"
    /\ ~(SmartMeterReadable /\ MixColumnsReadable)
    /\ pc' = "error"
    /\ UNCHANGED <<smart_meter, grid, imports, df, df_weekly, stdout, grid_mix, weekly_usage, files>>

\* calculate_home_source_usage, lines 79-85: the per-source columns and
\* their weekly sums.
AttributeUsage ==
    /\ pc = "attribute"
    /\ weekly_usage' = WeeklyUsage(imports, grid_mix)
    /\ pc' = "plot_stacked_area"
    /\ UNCHANGED <<smart_meter, grid, imports, df, df_weekly, stdout, grid_mix, files>>

\* energy_sources, line 109: plot_stacked_area(weekly_usage)
PlotStackedArea ==
    /\ pc = "plot_stacked_area"
    /\ IF \E i \in DOMAIN PlotColumns : MixedSign(weekly_usage, PlotColumns[i])
       THEN /\ pc' = "error"
            /\ UNCHANGED files
       ELSE /\ pc' = "done"
            /\ files' = files \cup {[name |-> USAGE_PNG, weeks |-> DOMAIN weekly_usage]}
    /\ UNCHANGED <<smart_meter, grid, imports, df, df_weekly, stdout, grid_mix, weekly_usage>>

Next ==
    \/ OpenSmartMeter
    \/ OpenSmartMeterRaises
    \/ Aggregate
    \/ AggregateRaises
    \/ SaveAndPrint
    \/ NormaliseGridMix
    \/ NormaliseGridMixRaises
    \/ AttributeUsage
    \/ PlotStackedArea

-----------------------------------------------------------------------------
(* Input files.                                                            *)

\* kWh readings by timestamp: a steady load, a rising load that starts at
\* zero, and a meter that reports 16 kWh at every even interval.
SteadyKWh(t) == Int2Val(2)
RisingKWh(t) == Int2Val(t)
FaultyKWh(t) == IF t % 2 = 0 THEN Int2Val(16) ELSE Int2Val(t)

\* kWh cells for the cleaner: a blank cell, a negative reading, two readings
\* within range, a reading above 15.
CleanerCells == {NaN, Int2Val(0 - 1), Int2Val(3), Int2Val(9), Int2Val(16)}

\* Grid rows: a blend of three sources, gas alone at a higher intensity, and
\* an interval in which nothing is generated.
RowBlend ==
    GridRow(3, 4, [s \in {"GAS", "NUCLEAR", "STORAGE"} |-> IF s = "NUCLEAR" THEN 2 ELSE 1])
RowGas == GridRow(5, 1, [s \in {"GAS"} |-> 1])
RowIdle == GridRow(3, 0, [s \in {} |-> 0])

\* Grid rows by timestamp: the same row throughout, intensity and generation
\* that alternate, and a constant intensity with idle (zero generation)
\* intervals.
SteadyGrid(t) == RowBlend
VaryingGrid(t) == IF t % 2 = 0 THEN RowGas ELSE RowBlend
IdleGrid(t) == IF t % 2 = 0 THEN RowIdle ELSE RowBlend

SmartMeterFile(r) == File(SmartMeterColumns, r)
FullGrid(r) == File(GridColumns, r)

\* A smart_meter.csv with no kWh column.
NoKWh == File(SmartMeterColumns \ {"kWh"}, EmptyTable)

\* grid.csv files that lack one of the columns the script reads.
BrokenGrids ==
    {WithoutColumn(FullGrid([t \in Slots |-> RowGas]), c) :
        c \in {CARBON_INTENSITY_COL, GRID_GENERATION_COL, "COAL"}}

\* Every meter file holds one of the three loads at some set of timestamps.
MeterFiles ==
    {SmartMeterFile([t \in D |-> SteadyKWh(t)]) : D \in Indexes}
        \cup {SmartMeterFile([t \in D |-> RisingKWh(t)]) : D \in Indexes}
        \cup {SmartMeterFile([t \in D |-> FaultyKWh(t)]) : D \in Indexes}
        \cup {NoKWh}

\* Every grid file holds one of the three grids at some set of timestamps.
GridFiles ==
    {FullGrid([t \in D |-> SteadyGrid(t)]) : D \in Indexes}
        \cup {FullGrid([t \in D |-> VaryingGrid(t)]) : D \in Indexes}
        \cup {FullGrid([t \in D |-> IdleGrid(t)]) : D \in Indexes}
        \cup BrokenGrids

CleanerMeterFiles == {SmartMeterFile(r) : r \in Tables(CleanerCells)} \cup {NoKWh}

InitRest ==
    /\ pc = "carbon_mix"
    /\ imports = EmptyTable
    /\ df = EmptyTable
    /\ df_weekly = EmptyTable
    /\ stdout = <<>>
    /\ grid_mix = EmptyTable
    /\ weekly_usage = EmptyTable
    /\ files = {}

Init ==
    /\ smart_meter \in MeterFiles
    /\ grid \in GridFiles
    /\ InitRest

Spec == Init /\ [][Next]_vars

\* The cleaner on a wider range of meter files, against a grid file with a
\* row at the first and at the last interval (or one that lacks a column).
InitCleaner ==
    /\ \/ /\ smart_meter \in CleanerMeterFiles
          /\ grid = FullGrid([t \in {0, NSlots - 1} |-> RowGas])
       \/ /\ smart_meter = SmartMeterFile([t \in Slots |-> Int2Val(3)])
          /\ grid \in BrokenGrids
    /\ InitRest

SpecCleaner == InitCleaner /\ [][Next]_vars

-----------------------------------------------------------------------------
(* Properties of the cleaner (checked under SpecCleaner).                  *)

RawKWh == smart_meter.rows

\* A raw reading that the cleaner keeps: present and not above 15.
ValidReading(v) == IsNum(v) /\ ~Gt(v, Int2Val(ERROR_THRESHOLD))

EarlierValid(t) == {u \in DOMAIN RawKWh : u < t /\ ValidReading(RawKWh[u])}
LaterValid(t) == {u \in DOMAIN RawKWh : u > t /\ ValidReading(RawKWh[u])}

\* The straight line over time through the nearest valid neighbours of t.
TimeInterpolation(t) ==
    LET p == Max(EarlierValid(t))
        q == Min(LaterValid(t))
    IN  Add(RawKWh[p], Mul(Sub(RawKWh[q], RawKWh[p]), Num(t - p, q - p)))

\* C1: every reading above 15 that has a valid reading on both sides is
\* replaced, in the cleaned series, by the linear interpolation over time
\* between its nearest earlier and nearest later valid readings, whatever the
\* spacing of their timestamps and however many invalid readings lie between.
C1_InterpolatedOverTime ==
    \A t \in DOMAIN imports :
        (Gt(RawKWh[t], Int2Val(ERROR_THRESHOLD))
            /\ EarlierValid(t) # {} /\ LaterValid(t) # {})
        => /\ imports[t] # RawKWh[t]
           /\ imports[t] = TimeInterpolation(t)

NonNegative(v) == ~IsNaN(v) /\ Sign(v) >= 0
AtMostThreshold(v) == ~Gt(v, Int2Val(ERROR_THRESHOLD))

\* C7 as stated: every non-missing value of the cleaned series is >= 0 and
\* <= 15, whatever the raw series holds.
C7_CleanedWithinRange ==
    \A t \in DOMAIN imports :
        ~IsNaN(imports[t]) => NonNegative(imports[t]) /\ AtMostThreshold(imports[t])

\* C7 as amended: every non-missing value of the cleaned series is <= 15,
\* and it is >= 0 when the raw series holds no negative reading.
C7_CleanedAtMostThreshold ==
    \A t \in DOMAIN imports :
        ~IsNaN(imports[t])
        => /\ AtMostThreshold(imports[t])
           /\ (\A u \in DOMAIN RawKWh : IsNaN(RawKWh[u]) \/ NonNegative(RawKWh[u]))
                => NonNegative(imports[t])

\* A raw series without negative readings in which a reading above 15 was
\* replaced by a value strictly between two different valid neighbours.
C7_Witness ==
    /\ \A u \in DOMAIN RawKWh : IsNaN(RawKWh[u]) \/ NonNegative(RawKWh[u])
    /\ \E t \in DOMAIN imports :
        /\ Gt(RawKWh[t], Int2Val(ERROR_THRESHOLD))
        /\ IsNum(imports[t])
        /\ \E u \in DOMAIN imports : Gt(imports[t], imports[u])
        /\ \E u \in DOMAIN imports : Gt(imports[u], imports[t])

-----------------------------------------------------------------------------
(* Properties of carbon_mix (checked under Spec).                          *)

\* The statements after the join and the weekly table, and after printing.
Aggregated == pc \in {"plot", "energy_sources", "attribute", "plot_stacked_area", "done"}
Printed == pc \in {"energy_sources", "attribute", "plot_stacked_area", "done"}

GridCI(t) == grid.rows[t][CARBON_INTENSITY_COL]
GridGen(t) == grid.rows[t][GRID_GENERATION_COL]

\* The timestamps of week w present in both input series.
SharedRows(w) ==
    {t \in (DOMAIN RawKWh) \cap (DOMAIN grid.rows) : WeekOf(t) = w}

\* Those of them whose cleaned import is a value.
MeteredRows(w) == {t \in SharedRows(w) : ~IsNaN(imports[t])}

\* Sums over a set S of timestamps, computed from the cleaned imports and
\* the rows of grid.csv.
SumImports(S) == SumOver([t \in S |-> imports[t]], S)
SumGeneration(S) == SumOver([t \in S |-> GridGen(t)], S)
SumHomeCarbon(S) == SumOver([t \in S |-> Mul(imports[t], GridCI(t))], S)
SumGridCarbon(S) == SumOver([t \in S |-> Mul(GridGen(t), GridCI(t))], S)

\* C5: the joined series holds exactly the timestamps present in both the
\* cleaned home series and the grid series, and each row carries that
\* timestamp's imports, carbon intensity and generation unchanged.
C5_InnerJoin ==
    Aggregated
    => /\ DOMAIN df = (DOMAIN imports) \cap (DOMAIN grid.rows)
       /\ \A t \in DOMAIN df :
            /\ df[t].imports = imports[t]
            /\ df[t].ci = GridCI(t)
            /\ df[t].gen = GridGen(t)

\* A join that kept a shared timestamp whose import is missing, dropped a
\* timestamp only the meter has and dropped one only the grid has.
C5_Witness ==
    /\ Aggregated
    /\ \E t \in DOMAIN df : IsNaN(df[t].imports)
    /\ \E t \in DOMAIN df : IsNum(df[t].imports)
    /\ (DOMAIN imports) \ (DOMAIN grid.rows) # {}
    /\ (DOMAIN grid.rows) \ (DOMAIN imports) # {}

MeanCI(S) == Div(SumOver([t \in S |-> GridCI(t)], S), Int2Val(Cardinality(S)))

ConstantCI(c) == \A t \in DOMAIN grid.rows : GridCI(t) = c

\* C4 as stated: with a constant grid intensity c, every weekly bucket has
\* home_carbon_intensity = c and grid_carbon_intensity = c.
C4_ConstantEverywhere ==
    Aggregated
    => \A t \in DOMAIN grid.rows :
        ConstantCI(GridCI(t))
        => \A w \in DOMAIN df_weekly :
            /\ df_weekly[w].home_carbon_intensity = GridCI(t)
            /\ df_weekly[w].grid_carbon_intensity = GridCI(t)

\* C4 as amended: with a constant grid intensity c, home_carbon_intensity = c
\* in every weekly bucket whose summed imports are not zero and
\* grid_carbon_intensity = c in every bucket whose summed generation is not
\* zero; in a bucket whose divisor is zero the intensity is no number.
C4_ConstantWhereDefined ==
    Aggregated
    => \A t \in DOMAIN grid.rows :
        ConstantCI(GridCI(t))
        => \A w \in DOMAIN df_weekly :
            /\ IF Sign(SumImports(MeteredRows(w))) # 0
               THEN df_weekly[w].home_carbon_intensity = GridCI(t)
               ELSE ~IsNum(df_weekly[w].home_carbon_intensity)
            /\ IF Sign(SumGeneration(SharedRows(w))) # 0
               THEN df_weekly[w].grid_carbon_intensity = GridCI(t)
               ELSE ~IsNum(df_weekly[w].grid_carbon_intensity)

\* A constant-intensity grid with a week of unequal imports and unequal
\* generation, a bucket with no joined row and a bucket whose generation is
\* all zero.
C4_Witness ==
    /\ Aggregated
    /\ \E t \in DOMAIN grid.rows : ConstantCI(GridCI(t))
    /\ \E w \in DOMAIN df_weekly :
        /\ \E t, u \in MeteredRows(w) : imports[t] # imports[u] /\ GridGen(t) # GridGen(u)
        /\ IsNum(df_weekly[w].home_carbon_intensity)
        /\ IsNum(df_weekly[w].grid_carbon_intensity)
    /\ \E w \in DOMAIN df_weekly : SharedRows(w) = {}
    /\ \E w \in DOMAIN df_weekly :
        SharedRows(w) # {} /\ \A t \in SharedRows(w) : GridGen(t) = Zero

\* A weekly bucket whose summed imports, or summed generation, is zero.
ZeroImportsWeek(w) == Sign(df_weekly[w].imports) = 0
ZeroGenerationWeek(w) == Sign(df_weekly[w].gen) = 0

SavedNames == {f.name : f \in files}

\* C8: a week whose summed imports (or summed generation) is zero has an
\* intensity that is no number, every other week's intensity is the number
\* its own sums give, the zero divisor does not end the run, and carbon_mix
\* goes on to save the chart and print both overall averages.
C8_ZeroDivisorTolerated ==
    /\ Aggregated
        => \A w \in DOMAIN df_weekly :
            /\ IF ZeroImportsWeek(w)
               THEN ~IsNum(df_weekly[w].home_carbon_intensity)
               ELSE /\ IsNum(df_weekly[w].home_carbon_intensity)
                    /\ Mul(df_weekly[w].home_carbon_intensity, df_weekly[w].imports)
                        = df_weekly[w].home_carbon
            /\ IF ZeroGenerationWeek(w)
               THEN ~IsNum(df_weekly[w].grid_carbon_intensity)
               ELSE /\ IsNum(df_weekly[w].grid_carbon_intensity)
                    /\ Mul(df_weekly[w].grid_carbon_intensity, df_weekly[w].gen)
                        = df_weekly[w].grid_carbon
    /\ Printed => CARBON_PNG \in SavedNames /\ Len(stdout) = 2
    /\ pc = "error" => ~(SmartMeterReadable /\ CarbonColumnsReadable /\ MixColumnsReadable)

\* carbon_mix has saved and printed for a table with a week of zero imports,
\* a week of zero generation and a week in which both intensities are numbers.
C8_Witness ==
    /\ Printed
    /\ CARBON_PNG \in SavedNames
    /\ \E w \in DOMAIN df_weekly : ZeroImportsWeek(w)
    /\ \E w \in DOMAIN df_weekly : ZeroGenerationWeek(w) /\ ~ZeroImportsWeek(w)
    /\ \E w \in DOMAIN df_weekly :
        /\ IsNum(df_weekly[w].home_carbon_intensity)
        /\ IsNum(df_weekly[w].grid_carbon_intensity)

WeeklyTotal(name) ==
    SumOver([w \in DOMAIN df_weekly |-> df_weekly[w][name]], DOMAIN df_weekly)

\* C10: every joined row falls in exactly one weekly bucket, the weekly sums
\* of home_carbon, grid_carbon, imports and generation add up to the totals
\* of the whole joined table, and the printed averages are the quotients of
\* the summed weekly sums.
C10_WeeksPartitionTotals ==
    Printed
    => /\ \A t \in DOMAIN df :
            Cardinality({w \in DOMAIN df_weekly : t \in SharedRows(w)}) = 1
       /\ WeeklyTotal("home_carbon") = SumHomeCarbon(DOMAIN df)
       /\ WeeklyTotal("grid_carbon") = SumGridCarbon(DOMAIN df)
       /\ WeeklyTotal("imports") = SumImports(DOMAIN df)
       /\ WeeklyTotal("gen") = SumGeneration(DOMAIN df)
       /\ stdout[1].value = Div(WeeklyTotal("home_carbon"), WeeklyTotal("imports"))
       /\ stdout[2].value = Div(WeeklyTotal("grid_carbon"), WeeklyTotal("gen"))

\* Averages printed for a table of three weekly buckets, two of them with
\* rows, whose weekly intensities differ from each other and from the
\* overall average.
C10_Witness ==
    /\ Printed
    /\ Cardinality(DOMAIN df_weekly) >= 3
    /\ IsNum(stdout[1].value)
    /\ IsNum(stdout[2].value)
    /\ \E v, w \in DOMAIN df_weekly :
        /\ IsNum(df_weekly[v].home_carbon_intensity)
        /\ IsNum(df_weekly[w].home_carbon_intensity)
        /\ df_weekly[v].home_carbon_intensity # df_weekly[w].home_carbon_intensity
        /\ df_weekly[v].home_carbon_intensity # stdout[1].value
        /\ df_weekly[w].home_carbon_intensity # stdout[1].value

-----------------------------------------------------------------------------
(* Properties of energy_sources (checked under Spec).                      *)

UsageReturned == pc \in {"plot_stacked_area", "done"}

HomeRows(w) == {t \in DOMAIN imports : WeekOf(t) = w}

\* The home timestamps of week w that have a grid row whose ten sources do
\* not add up to zero.
CoveredRows(w) ==
    {t \in HomeRows(w) :
        t \in DOMAIN grid.rows /\ Sign(SumOver(grid.rows[t], Sources)) # 0}

UsageOfWeek(w) == SumOver(weekly_usage[w], Sources)

\* C2 as stated: in every week of the table, the ten per-source usages add
\* up to the total of the cleaned home imports over all home timestamps of
\* that week.
C2_UsagePartitionsImports ==
    UsageReturned
    => \A w \in DOMAIN weekly_usage : UsageOfWeek(w) = SumImports(HomeRows(w))

\* C2 as amended: in every week of the table, the ten per-source usages add
\* up to the total of the cleaned home imports over the home timestamps of
\* that week that have a grid row whose ten sources do not add up to zero.
C2_UsagePartitionsCoveredImports ==
    UsageReturned
    => \A w \in DOMAIN weekly_usage : UsageOfWeek(w) = SumImports(CoveredRows(w))

\* A week with two covered home timestamps of different mixes, one of them a
\* blend of three sources, whose usage is not zero, and a week with a home
\* timestamp that is not covered.
C2_Witness ==
    /\ UsageReturned
    /\ \E w \in DOMAIN weekly_usage :
        /\ \E t, u \in CoveredRows(w) :
            /\ grid_mix[t] # grid_mix[u]
            /\ Sign(imports[t]) > 0
            /\ Sign(imports[u]) > 0
        /\ Cardinality({s \in Sources : Sign(weekly_usage[w][s]) > 0}) >= 3
        /\ Sign(UsageOfWeek(w)) > 0
    /\ \E w \in DOMAIN weekly_usage : CoveredRows(w) # HomeRows(w)

\* C9: neither rendering path saves an image when a column it reads is
\* missing, and neither saves a chart drawn from an empty table.
C9_NoChartWithoutData ==
    /\ \A f \in files : f.weeks # {}
    /\ CARBON_PNG \in SavedNames => SmartMeterReadable /\ CarbonColumnsReadable
    /\ USAGE_PNG \in SavedNames => SmartMeterReadable /\ MixColumnsReadable
    /\ Printed => DOMAIN df # {}

====
